---- MODULE Spec2Model ----
(***************************************************************************)
(* Model of PropertyListingEngine (src/realestateengine.py): the primary   *)
(* list, the id map and the location buckets, the operations that change   *)
(* them, and the sort and range-search algorithms that read them.          *)
(*                                                                         *)
(* Conventions.  A Python str is the sequence of its character codes       *)
(* (ord).  A Python list is a sequence; list indices keep their Python     *)
(* value (0-based) and At(items, i) reads items[i].  A 32-bit hash value   *)
(* h is the pair <<h \div 2^16, h % 2^16>> of its 16-bit halves, because   *)
(* 2^32 - 1 is beyond the integers the model checker computes with.  A     *)
(* price is a Python float: a number, or NaN, which float() returns for    *)
(* the answer "nan" and which no comparison holds of.                      *)
(***************************************************************************)
EXTENDS Integers, Sequences, FiniteSets, TLC

VARIABLES properties, location_map, id_map, next_id, issued, last, view, run

vars == <<properties, location_map, id_map, next_id, issued, last, view, run>>

\* The engine object: the four attributes __init__ sets.
self == [properties |-> properties, location_map |-> location_map,
         id_map |-> id_map, next_id |-> next_id]

(***************************************************************************)
(* Bounds of the model and the inputs the calls are drawn from.            *)
(***************************************************************************)
MaxAdds == 3
MaxPrice == 2
MaxTextLen == 5

\* float("nan"), and the comparisons of two floats.
NaN == -1

Lt(a, b) == a # NaN /\ b # NaN /\ a < b

Le(a, b) == a # NaN /\ b # NaN /\ a <= b

Gt(a, b) == a # NaN /\ b # NaN /\ a > b

Ge(a, b) == a # NaN /\ b # NaN /\ a >= b

\* The prices main passes to add_property are those `price < 0` does not
\* hold of; the bounds it reads for a range search are any two floats.
Prices == {price \in (1..MaxPrice) \cup {NaN} : ~Lt(price, 0)}
PriceBounds == (0..(MaxPrice + 1)) \cup {NaN}
Titles == {"A"}
PropertyTypes == {"house"}
DeleteIds == 0..(MaxAdds + 1)

\* "A ~", "a~", "a<TAB>~", "b_": the first two differ in case and spaces,
\* the third holds a tab, the fourth collides with "a~" under the hash
\* (31 * 97 + 126 = 31 * 98 + 95).  Records are added under three of them;
\* all four are searched for.
LocASpaceTilde == <<65, 32, 126>>
LocATilde == <<97, 126>>
LocATabTilde == <<97, 9, 126>>
LocBUnderscore == <<98, 95>>
AddLocations == {LocASpaceTilde, LocATabTilde, LocBUnderscore}
Locations == AddLocations \cup {LocATilde}

(***************************************************************************)
(* Helpers for Python lists and strings.                                   *)
(***************************************************************************)
At(items, i) == items[i + 1]

Swap(items, i, j) == [items EXCEPT ![i + 1] = items[j + 1], ![j + 1] = items[i + 1]]

Reverse(items) == [i \in 1..Len(items) |-> items[Len(items) + 1 - i]]

Slice(items, start, stop) == SubSeq(items, start + 1, stop)

(***************************************************************************)
(* str.lower().  LowerTable lists the code points with a one-character     *)
(* lower case other than themselves, as <<first, last, step, offset>>:     *)
(* every step-th code from first to last maps to itself plus offset.       *)
(* CasedTable and CaseIgnorableTable list, as <<first, last>>, the code    *)
(* points that are cased and not case-ignorable, and those that are        *)
(* case-ignorable; str.lower() reads them around a capital sigma.          *)
(***************************************************************************)
LowerTable ==
  <<
    <<65, 90, 1, 32>>, <<192, 214, 1, 32>>, <<216, 222, 1, 32>>,
    <<256, 302, 2, 1>>, <<306, 310, 2, 1>>, <<313, 327, 2, 1>>,
    <<330, 374, 2, 1>>, <<376, 376, 1, -121>>, <<377, 381, 2, 1>>,
    <<385, 385, 1, 210>>, <<386, 388, 2, 1>>, <<390, 390, 1, 206>>,
    <<391, 391, 1, 1>>, <<393, 394, 1, 205>>, <<395, 395, 1, 1>>,
    <<398, 398, 1, 79>>, <<399, 399, 1, 202>>, <<400, 400, 1, 203>>,
    <<401, 401, 1, 1>>, <<403, 403, 1, 205>>, <<404, 404, 1, 207>>,
    <<406, 406, 1, 211>>, <<407, 407, 1, 209>>, <<408, 408, 1, 1>>,
    <<412, 412, 1, 211>>, <<413, 413, 1, 213>>, <<415, 415, 1, 214>>,
    <<416, 420, 2, 1>>, <<422, 422, 1, 218>>, <<423, 423, 1, 1>>,
    <<425, 425, 1, 218>>, <<428, 428, 1, 1>>, <<430, 430, 1, 218>>,
    <<431, 431, 1, 1>>, <<433, 434, 1, 217>>, <<435, 437, 2, 1>>,
    <<439, 439, 1, 219>>, <<440, 440, 1, 1>>, <<444, 444, 1, 1>>,
    <<452, 452, 1, 2>>, <<453, 453, 1, 1>>, <<455, 455, 1, 2>>,
    <<456, 456, 1, 1>>, <<458, 458, 1, 2>>, <<459, 475, 2, 1>>,
    <<478, 494, 2, 1>>, <<497, 497, 1, 2>>, <<498, 500, 2, 1>>,
    <<502, 502, 1, -97>>, <<503, 503, 1, -56>>, <<504, 542, 2, 1>>,
    <<544, 544, 1, -130>>, <<546, 562, 2, 1>>, <<570, 570, 1, 10795>>,
    <<571, 571, 1, 1>>, <<573, 573, 1, -163>>, <<574, 574, 1, 10792>>,
    <<577, 577, 1, 1>>, <<579, 579, 1, -195>>, <<580, 580, 1, 69>>,
    <<581, 581, 1, 71>>, <<582, 590, 2, 1>>, <<880, 882, 2, 1>>,
    <<886, 886, 1, 1>>, <<895, 895, 1, 116>>, <<902, 902, 1, 38>>,
    <<904, 906, 1, 37>>, <<908, 908, 1, 64>>, <<910, 911, 1, 63>>,
    <<913, 929, 1, 32>>, <<932, 939, 1, 32>>, <<975, 975, 1, 8>>,
    <<984, 1006, 2, 1>>, <<1012, 1012, 1, -60>>, <<1015, 1015, 1, 1>>,
    <<1017, 1017, 1, -7>>, <<1018, 1018, 1, 1>>, <<1021, 1023, 1, -130>>,
    <<1024, 1039, 1, 80>>, <<1040, 1071, 1, 32>>, <<1120, 1152, 2, 1>>,
    <<1162, 1214, 2, 1>>, <<1216, 1216, 1, 15>>, <<1217, 1229, 2, 1>>,
    <<1232, 1326, 2, 1>>, <<1329, 1366, 1, 48>>, <<4256, 4293, 1, 7264>>,
    <<4295, 4295, 1, 7264>>, <<4301, 4301, 1, 7264>>,
    <<5024, 5103, 1, 38864>>, <<5104, 5109, 1, 8>>,
    <<7312, 7354, 1, -3008>>, <<7357, 7359, 1, -3008>>,
    <<7680, 7828, 2, 1>>, <<7838, 7838, 1, -7615>>, <<7840, 7934, 2, 1>>,
    <<7944, 7951, 1, -8>>, <<7960, 7965, 1, -8>>, <<7976, 7983, 1, -8>>,
    <<7992, 7999, 1, -8>>, <<8008, 8013, 1, -8>>, <<8025, 8031, 2, -8>>,
    <<8040, 8047, 1, -8>>, <<8072, 8079, 1, -8>>, <<8088, 8095, 1, -8>>,
    <<8104, 8111, 1, -8>>, <<8120, 8121, 1, -8>>, <<8122, 8123, 1, -74>>,
    <<8124, 8124, 1, -9>>, <<8136, 8139, 1, -86>>, <<8140, 8140, 1, -9>>,
    <<8152, 8153, 1, -8>>, <<8154, 8155, 1, -100>>, <<8168, 8169, 1, -8>>,
    <<8170, 8171, 1, -112>>, <<8172, 8172, 1, -7>>,
    <<8184, 8185, 1, -128>>, <<8186, 8187, 1, -126>>,
    <<8188, 8188, 1, -9>>, <<8486, 8486, 1, -7517>>,
    <<8490, 8490, 1, -8383>>, <<8491, 8491, 1, -8262>>,
    <<8498, 8498, 1, 28>>, <<8544, 8559, 1, 16>>, <<8579, 8579, 1, 1>>,
    <<9398, 9423, 1, 26>>, <<11264, 11311, 1, 48>>, <<11360, 11360, 1, 1>>,
    <<11362, 11362, 1, -10743>>, <<11363, 11363, 1, -3814>>,
    <<11364, 11364, 1, -10727>>, <<11367, 11371, 2, 1>>,
    <<11373, 11373, 1, -10780>>, <<11374, 11374, 1, -10749>>,
    <<11375, 11375, 1, -10783>>, <<11376, 11376, 1, -10782>>,
    <<11378, 11378, 1, 1>>, <<11381, 11381, 1, 1>>,
    <<11390, 11391, 1, -10815>>, <<11392, 11490, 2, 1>>,
    <<11499, 11501, 2, 1>>, <<11506, 11506, 1, 1>>, <<42560, 42604, 2, 1>>,
    <<42624, 42650, 2, 1>>, <<42786, 42798, 2, 1>>, <<42802, 42862, 2, 1>>,
    <<42873, 42875, 2, 1>>, <<42877, 42877, 1, -35332>>,
    <<42878, 42886, 2, 1>>, <<42891, 42891, 1, 1>>,
    <<42893, 42893, 1, -42280>>, <<42896, 42898, 2, 1>>,
    <<42902, 42920, 2, 1>>, <<42922, 42922, 1, -42308>>,
    <<42923, 42923, 1, -42319>>, <<42924, 42924, 1, -42315>>,
    <<42925, 42925, 1, -42305>>, <<42926, 42926, 1, -42308>>,
    <<42928, 42928, 1, -42258>>, <<42929, 42929, 1, -42282>>,
    <<42930, 42930, 1, -42261>>, <<42931, 42931, 1, 928>>,
    <<42932, 42946, 2, 1>>, <<42948, 42948, 1, -48>>,
    <<42949, 42949, 1, -42307>>, <<42950, 42950, 1, -35384>>,
    <<42951, 42953, 2, 1>>, <<42960, 42960, 1, 1>>, <<42966, 42968, 2, 1>>,
    <<42997, 42997, 1, 1>>, <<65313, 65338, 1, 32>>,
    <<66560, 66599, 1, 40>>, <<66736, 66771, 1, 40>>,
    <<66928, 66938, 1, 39>>, <<66940, 66954, 1, 39>>,
    <<66956, 66962, 1, 39>>, <<66964, 66965, 1, 39>>,
    <<68736, 68786, 1, 64>>, <<71840, 71871, 1, 32>>,
    <<93760, 93791, 1, 32>>, <<125184, 125217, 1, 34>>
  >>

CasedTable ==
  <<
    <<65, 90>>, <<97, 122>>, <<170, 170>>, <<181, 181>>, <<186, 186>>,
    <<192, 214>>, <<216, 246>>, <<248, 442>>, <<444, 447>>, <<452, 659>>,
    <<661, 687>>, <<880, 883>>, <<886, 887>>, <<891, 893>>, <<895, 895>>,
    <<902, 902>>, <<904, 906>>, <<908, 908>>, <<910, 929>>, <<931, 1013>>,
    <<1015, 1153>>, <<1162, 1327>>, <<1329, 1366>>, <<1376, 1416>>,
    <<4256, 4293>>, <<4295, 4295>>, <<4301, 4301>>, <<4304, 4346>>,
    <<4349, 4351>>, <<5024, 5109>>, <<5112, 5117>>, <<7296, 7304>>,
    <<7312, 7354>>, <<7357, 7359>>, <<7424, 7467>>, <<7531, 7543>>,
    <<7545, 7578>>, <<7680, 7957>>, <<7960, 7965>>, <<7968, 8005>>,
    <<8008, 8013>>, <<8016, 8023>>, <<8025, 8025>>, <<8027, 8027>>,
    <<8029, 8029>>, <<8031, 8061>>, <<8064, 8116>>, <<8118, 8124>>,
    <<8126, 8126>>, <<8130, 8132>>, <<8134, 8140>>, <<8144, 8147>>,
    <<8150, 8155>>, <<8160, 8172>>, <<8178, 8180>>, <<8182, 8188>>,
    <<8450, 8450>>, <<8455, 8455>>, <<8458, 8467>>, <<8469, 8469>>,
    <<8473, 8477>>, <<8484, 8484>>, <<8486, 8486>>, <<8488, 8488>>,
    <<8490, 8493>>, <<8495, 8500>>, <<8505, 8505>>, <<8508, 8511>>,
    <<8517, 8521>>, <<8526, 8526>>, <<8544, 8575>>, <<8579, 8580>>,
    <<9398, 9449>>, <<11264, 11387>>, <<11390, 11492>>, <<11499, 11502>>,
    <<11506, 11507>>, <<11520, 11557>>, <<11559, 11559>>, <<11565, 11565>>,
    <<42560, 42605>>, <<42624, 42651>>, <<42786, 42863>>, <<42865, 42887>>,
    <<42891, 42894>>, <<42896, 42954>>, <<42960, 42961>>, <<42963, 42963>>,
    <<42965, 42969>>, <<42997, 42998>>, <<43002, 43002>>, <<43824, 43866>>,
    <<43872, 43880>>, <<43888, 43967>>, <<64256, 64262>>, <<64275, 64279>>,
    <<65313, 65338>>, <<65345, 65370>>, <<66560, 66639>>, <<66736, 66771>>,
    <<66776, 66811>>, <<66928, 66938>>, <<66940, 66954>>, <<66956, 66962>>,
    <<66964, 66965>>, <<66967, 66977>>, <<66979, 66993>>, <<66995, 67001>>,
    <<67003, 67004>>, <<68736, 68786>>, <<68800, 68850>>, <<71840, 71903>>,
    <<93760, 93823>>, <<119808, 119892>>, <<119894, 119964>>,
    <<119966, 119967>>, <<119970, 119970>>, <<119973, 119974>>,
    <<119977, 119980>>, <<119982, 119993>>, <<119995, 119995>>,
    <<119997, 120003>>, <<120005, 120069>>, <<120071, 120074>>,
    <<120077, 120084>>, <<120086, 120092>>, <<120094, 120121>>,
    <<120123, 120126>>, <<120128, 120132>>, <<120134, 120134>>,
    <<120138, 120144>>, <<120146, 120485>>, <<120488, 120512>>,
    <<120514, 120538>>, <<120540, 120570>>, <<120572, 120596>>,
    <<120598, 120628>>, <<120630, 120654>>, <<120656, 120686>>,
    <<120688, 120712>>, <<120714, 120744>>, <<120746, 120770>>,
    <<120772, 120779>>, <<122624, 122633>>, <<122635, 122654>>,
    <<125184, 125251>>, <<127280, 127305>>, <<127312, 127337>>,
    <<127344, 127369>>
  >>

CaseIgnorableTable ==
  <<
    <<39, 39>>, <<46, 46>>, <<58, 58>>, <<94, 94>>, <<96, 96>>,
    <<168, 168>>, <<173, 173>>, <<175, 175>>, <<180, 180>>, <<183, 184>>,
    <<688, 879>>, <<884, 885>>, <<890, 890>>, <<900, 901>>, <<903, 903>>,
    <<1155, 1161>>, <<1369, 1369>>, <<1375, 1375>>, <<1425, 1469>>,
    <<1471, 1471>>, <<1473, 1474>>, <<1476, 1477>>, <<1479, 1479>>,
    <<1524, 1524>>, <<1536, 1541>>, <<1552, 1562>>, <<1564, 1564>>,
    <<1600, 1600>>, <<1611, 1631>>, <<1648, 1648>>, <<1750, 1757>>,
    <<1759, 1768>>, <<1770, 1773>>, <<1807, 1807>>, <<1809, 1809>>,
    <<1840, 1866>>, <<1958, 1968>>, <<2027, 2037>>, <<2042, 2042>>,
    <<2045, 2045>>, <<2070, 2093>>, <<2137, 2139>>, <<2184, 2184>>,
    <<2192, 2193>>, <<2200, 2207>>, <<2249, 2306>>, <<2362, 2362>>,
    <<2364, 2364>>, <<2369, 2376>>, <<2381, 2381>>, <<2385, 2391>>,
    <<2402, 2403>>, <<2417, 2417>>, <<2433, 2433>>, <<2492, 2492>>,
    <<2497, 2500>>, <<2509, 2509>>, <<2530, 2531>>, <<2558, 2558>>,
    <<2561, 2562>>, <<2620, 2620>>, <<2625, 2626>>, <<2631, 2632>>,
    <<2635, 2637>>, <<2641, 2641>>, <<2672, 2673>>, <<2677, 2677>>,
    <<2689, 2690>>, <<2748, 2748>>, <<2753, 2757>>, <<2759, 2760>>,
    <<2765, 2765>>, <<2786, 2787>>, <<2810, 2815>>, <<2817, 2817>>,
    <<2876, 2876>>, <<2879, 2879>>, <<2881, 2884>>, <<2893, 2893>>,
    <<2901, 2902>>, <<2914, 2915>>, <<2946, 2946>>, <<3008, 3008>>,
    <<3021, 3021>>, <<3072, 3072>>, <<3076, 3076>>, <<3132, 3132>>,
    <<3134, 3136>>, <<3142, 3144>>, <<3146, 3149>>, <<3157, 3158>>,
    <<3170, 3171>>, <<3201, 3201>>, <<3260, 3260>>, <<3263, 3263>>,
    <<3270, 3270>>, <<3276, 3277>>, <<3298, 3299>>, <<3328, 3329>>,
    <<3387, 3388>>, <<3393, 3396>>, <<3405, 3405>>, <<3426, 3427>>,
    <<3457, 3457>>, <<3530, 3530>>, <<3538, 3540>>, <<3542, 3542>>,
    <<3633, 3633>>, <<3636, 3642>>, <<3654, 3662>>, <<3761, 3761>>,
    <<3764, 3772>>, <<3782, 3782>>, <<3784, 3789>>, <<3864, 3865>>,
    <<3893, 3893>>, <<3895, 3895>>, <<3897, 3897>>, <<3953, 3966>>,
    <<3968, 3972>>, <<3974, 3975>>, <<3981, 3991>>, <<3993, 4028>>,
    <<4038, 4038>>, <<4141, 4144>>, <<4146, 4151>>, <<4153, 4154>>,
    <<4157, 4158>>, <<4184, 4185>>, <<4190, 4192>>, <<4209, 4212>>,
    <<4226, 4226>>, <<4229, 4230>>, <<4237, 4237>>, <<4253, 4253>>,
    <<4348, 4348>>, <<4957, 4959>>, <<5906, 5908>>, <<5938, 5939>>,
    <<5970, 5971>>, <<6002, 6003>>, <<6068, 6069>>, <<6071, 6077>>,
    <<6086, 6086>>, <<6089, 6099>>, <<6103, 6103>>, <<6109, 6109>>,
    <<6155, 6159>>, <<6211, 6211>>, <<6277, 6278>>, <<6313, 6313>>,
    <<6432, 6434>>, <<6439, 6440>>, <<6450, 6450>>, <<6457, 6459>>,
    <<6679, 6680>>, <<6683, 6683>>, <<6742, 6742>>, <<6744, 6750>>,
    <<6752, 6752>>, <<6754, 6754>>, <<6757, 6764>>, <<6771, 6780>>,
    <<6783, 6783>>, <<6823, 6823>>, <<6832, 6862>>, <<6912, 6915>>,
    <<6964, 6964>>, <<6966, 6970>>, <<6972, 6972>>, <<6978, 6978>>,
    <<7019, 7027>>, <<7040, 7041>>, <<7074, 7077>>, <<7080, 7081>>,
    <<7083, 7085>>, <<7142, 7142>>, <<7144, 7145>>, <<7149, 7149>>,
    <<7151, 7153>>, <<7212, 7219>>, <<7222, 7223>>, <<7288, 7293>>,
    <<7376, 7378>>, <<7380, 7392>>, <<7394, 7400>>, <<7405, 7405>>,
    <<7412, 7412>>, <<7416, 7417>>, <<7468, 7530>>, <<7544, 7544>>,
    <<7579, 7679>>, <<8125, 8125>>, <<8127, 8129>>, <<8141, 8143>>,
    <<8157, 8159>>, <<8173, 8175>>, <<8189, 8190>>, <<8203, 8207>>,
    <<8216, 8217>>, <<8228, 8228>>, <<8231, 8231>>, <<8234, 8238>>,
    <<8288, 8292>>, <<8294, 8303>>, <<8305, 8305>>, <<8319, 8319>>,
    <<8336, 8348>>, <<8400, 8432>>, <<11388, 11389>>, <<11503, 11505>>,
    <<11631, 11631>>, <<11647, 11647>>, <<11744, 11775>>, <<11823, 11823>>,
    <<12293, 12293>>, <<12330, 12333>>, <<12337, 12341>>, <<12347, 12347>>,
    <<12441, 12446>>, <<12540, 12542>>, <<40981, 40981>>, <<42232, 42237>>,
    <<42508, 42508>>, <<42607, 42610>>, <<42612, 42621>>, <<42623, 42623>>,
    <<42652, 42655>>, <<42736, 42737>>, <<42752, 42785>>, <<42864, 42864>>,
    <<42888, 42890>>, <<42994, 42996>>, <<43000, 43001>>, <<43010, 43010>>,
    <<43014, 43014>>, <<43019, 43019>>, <<43045, 43046>>, <<43052, 43052>>,
    <<43204, 43205>>, <<43232, 43249>>, <<43263, 43263>>, <<43302, 43309>>,
    <<43335, 43345>>, <<43392, 43394>>, <<43443, 43443>>, <<43446, 43449>>,
    <<43452, 43453>>, <<43471, 43471>>, <<43493, 43494>>, <<43561, 43566>>,
    <<43569, 43570>>, <<43573, 43574>>, <<43587, 43587>>, <<43596, 43596>>,
    <<43632, 43632>>, <<43644, 43644>>, <<43696, 43696>>, <<43698, 43700>>,
    <<43703, 43704>>, <<43710, 43711>>, <<43713, 43713>>, <<43741, 43741>>,
    <<43756, 43757>>, <<43763, 43764>>, <<43766, 43766>>, <<43867, 43871>>,
    <<43881, 43883>>, <<44005, 44005>>, <<44008, 44008>>, <<44013, 44013>>,
    <<64286, 64286>>, <<64434, 64450>>, <<65024, 65039>>, <<65043, 65043>>,
    <<65056, 65071>>, <<65106, 65106>>, <<65109, 65109>>, <<65279, 65279>>,
    <<65287, 65287>>, <<65294, 65294>>, <<65306, 65306>>, <<65342, 65342>>,
    <<65344, 65344>>, <<65392, 65392>>, <<65438, 65439>>, <<65507, 65507>>,
    <<65529, 65531>>, <<66045, 66045>>, <<66272, 66272>>, <<66422, 66426>>,
    <<67456, 67461>>, <<67463, 67504>>, <<67506, 67514>>, <<68097, 68099>>,
    <<68101, 68102>>, <<68108, 68111>>, <<68152, 68154>>, <<68159, 68159>>,
    <<68325, 68326>>, <<68900, 68903>>, <<69291, 69292>>, <<69446, 69456>>,
    <<69506, 69509>>, <<69633, 69633>>, <<69688, 69702>>, <<69744, 69744>>,
    <<69747, 69748>>, <<69759, 69761>>, <<69811, 69814>>, <<69817, 69818>>,
    <<69821, 69821>>, <<69826, 69826>>, <<69837, 69837>>, <<69888, 69890>>,
    <<69927, 69931>>, <<69933, 69940>>, <<70003, 70003>>, <<70016, 70017>>,
    <<70070, 70078>>, <<70089, 70092>>, <<70095, 70095>>, <<70191, 70193>>,
    <<70196, 70196>>, <<70198, 70199>>, <<70206, 70206>>, <<70367, 70367>>,
    <<70371, 70378>>, <<70400, 70401>>, <<70459, 70460>>, <<70464, 70464>>,
    <<70502, 70508>>, <<70512, 70516>>, <<70712, 70719>>, <<70722, 70724>>,
    <<70726, 70726>>, <<70750, 70750>>, <<70835, 70840>>, <<70842, 70842>>,
    <<70847, 70848>>, <<70850, 70851>>, <<71090, 71093>>, <<71100, 71101>>,
    <<71103, 71104>>, <<71132, 71133>>, <<71219, 71226>>, <<71229, 71229>>,
    <<71231, 71232>>, <<71339, 71339>>, <<71341, 71341>>, <<71344, 71349>>,
    <<71351, 71351>>, <<71453, 71455>>, <<71458, 71461>>, <<71463, 71467>>,
    <<71727, 71735>>, <<71737, 71738>>, <<71995, 71996>>, <<71998, 71998>>,
    <<72003, 72003>>, <<72148, 72151>>, <<72154, 72155>>, <<72160, 72160>>,
    <<72193, 72202>>, <<72243, 72248>>, <<72251, 72254>>, <<72263, 72263>>,
    <<72273, 72278>>, <<72281, 72283>>, <<72330, 72342>>, <<72344, 72345>>,
    <<72752, 72758>>, <<72760, 72765>>, <<72767, 72767>>, <<72850, 72871>>,
    <<72874, 72880>>, <<72882, 72883>>, <<72885, 72886>>, <<73009, 73014>>,
    <<73018, 73018>>, <<73020, 73021>>, <<73023, 73029>>, <<73031, 73031>>,
    <<73104, 73105>>, <<73109, 73109>>, <<73111, 73111>>, <<73459, 73460>>,
    <<78896, 78904>>, <<92912, 92916>>, <<92976, 92982>>, <<92992, 92995>>,
    <<94031, 94031>>, <<94095, 94111>>, <<94176, 94177>>, <<94179, 94180>>,
    <<110576, 110579>>, <<110581, 110587>>, <<110589, 110590>>,
    <<113821, 113822>>, <<113824, 113827>>, <<118528, 118573>>,
    <<118576, 118598>>, <<119143, 119145>>, <<119155, 119170>>,
    <<119173, 119179>>, <<119210, 119213>>, <<119362, 119364>>,
    <<121344, 121398>>, <<121403, 121452>>, <<121461, 121461>>,
    <<121476, 121476>>, <<121499, 121503>>, <<121505, 121519>>,
    <<122880, 122886>>, <<122888, 122904>>, <<122907, 122913>>,
    <<122915, 122916>>, <<122918, 122922>>, <<123184, 123197>>,
    <<123566, 123566>>, <<123628, 123631>>, <<125136, 125142>>,
    <<125252, 125259>>, <<127995, 127999>>, <<917505, 917505>>,
    <<917536, 917631>>, <<917760, 917999>>
  >>

IsCaseIgnorable(c) ==
    \E i \in 1..Len(CaseIgnorableTable) :
        CaseIgnorableTable[i][1] <= c /\ c <= CaseIgnorableTable[i][2]

IsCased(c) ==
    \E i \in 1..Len(CasedTable) : CasedTable[i][1] <= c /\ c <= CasedTable[i][2]

LowerRows(c) ==
    {i \in 1..Len(LowerTable) :
        /\ LowerTable[i][1] <= c /\ c <= LowerTable[i][2]
        /\ (c - LowerTable[i][1]) % LowerTable[i][3] = 0}

\* The lower case of a code point that has a one-character one.  No code
\* under 192 other than A-Z is in LowerTable.
LowerChar(c) ==
    IF c \in 65..90 THEN c + 32
    ELSE IF c < 192 \/ LowerRows(c) = {} THEN c
    ELSE c + LowerTable[CHOOSE i \in LowerRows(c) : TRUE][4]

\* Is the nearest character that is not case-ignorable, from s[j] on
\* towards the start (step -1) or the end (step 1), a cased one?
RECURSIVE CasedNear(_, _, _)
CasedNear(s, j, step) ==
    IF j < 1 \/ j > Len(s) THEN FALSE
    ELSE IF IsCaseIgnorable(s[j]) THEN CasedNear(s, j + step, step)
    ELSE IsCased(s[j])

\* A capital sigma is lower-cased to the final sigma when it ends a word.
FinalSigma(s, i) == CasedNear(s, i - 1, -1) /\ ~CasedNear(s, i + 1, 1)

\* The lower case of s[i]: two characters for U+0130, one otherwise.
LowerAt(s, i) ==
    IF s[i] = 304 THEN <<105, 775>>
    ELSE IF s[i] = 931 THEN <<IF FinalSigma(s, i) THEN 962 ELSE 963>>
    ELSE <<LowerChar(s[i])>>

RECURSIVE LowerUpTo(_, _)
LowerUpTo(s, n) == IF n = 0 THEN <<>> ELSE LowerUpTo(s, n - 1) \o LowerAt(s, n)

Lower(s) == LowerUpTo(s, Len(s))

IsNotSpace(c) == c # 32

RemoveSpaces(s) == SelectSeq(s, IsNotSpace)

Property(property_id, title, location, price, property_type) ==
    [id |-> property_id, title |-> title, location |-> location,
     price |-> price, property_type |-> property_type]

(***************************************************************************)
(* _hash_location: lower-case, remove " ", then fold                       *)
(* hash_value = (31 * hash_value + ord(char)) & 0xFFFFFFFF.                *)
(***************************************************************************)
prime == 31
Half == 65536

\* Faulty variant: the upper half is not cut to 16 bits (no & 0xFFFFFFFF).
HashStepNoMask(hash_value, code) ==
    LET low == prime * hash_value[2] + code
        high == prime * hash_value[1] + (low \div Half)
    IN <<high, low % Half>>

HashStep(hash_value, code) ==
    LET low == prime * hash_value[2] + code
        high == prime * hash_value[1] + (low \div Half)
    IN <<high % Half, low % Half>>

RECURSIVE HashFold(_, _, _)
HashFold(clean_location, i, hash_value) ==
    IF i > Len(clean_location) THEN hash_value
    ELSE HashFold(clean_location, i + 1, HashStep(hash_value, clean_location[i]))

\* Faulty variant: no lower-casing.
CleanLocationKeepCase(location) == RemoveSpaces(location)

CleanLocation(location) == RemoveSpaces(Lower(location))

_hash_location(location) == HashFold(CleanLocation(location), 1, <<0, 0>>)

(***************************************************************************)
(* _quick_sort_by_price: middle pivot moved to the end, one forward scan   *)
(* with a boundary pointer, recursion on both sides of the pivot.          *)
(***************************************************************************)
RECURSIVE PartitionScan(_, _, _, _, _)
PartitionScan(items, current, high, left_pointer, pivot_price) ==
    IF current >= high THEN [items |-> items, left_pointer |-> left_pointer]
    ELSE IF Le(At(items, current).price, pivot_price)
         THEN PartitionScan(Swap(items, left_pointer, current), current + 1, high,
                            left_pointer + 1, pivot_price)
         ELSE PartitionScan(items, current + 1, high, left_pointer, pivot_price)

\* Faulty variant: the last item of the range is the pivot.
RECURSIVE _quick_sort_last_pivot(_, _, _)
_quick_sort_last_pivot(items, low, high) ==
    IF low >= high THEN items
    ELSE LET pivot_price == At(items, high).price
             scan == PartitionScan(items, low, high, low, pivot_price)
             placed == Swap(scan.items, scan.left_pointer, high)
             leftDone == _quick_sort_last_pivot(placed, low, scan.left_pointer - 1)
         IN _quick_sort_last_pivot(leftDone, scan.left_pointer + 1, high)

RECURSIVE _quick_sort_by_price(_, _, _)
_quick_sort_by_price(items, low, high) ==
    IF low >= high THEN items
    ELSE LET mid_index == (low + high) \div 2
             atEnd == Swap(items, mid_index, high)
             pivot_price == At(atEnd, high).price
             scan == PartitionScan(atEnd, low, high, low, pivot_price)
             placed == Swap(scan.items, scan.left_pointer, high)
             leftDone == _quick_sort_by_price(placed, low, scan.left_pointer - 1)
         IN _quick_sort_by_price(leftDone, scan.left_pointer + 1, high)

(***************************************************************************)
(* The two boundary searches.                                              *)
(***************************************************************************)
\* Faulty variant: compares with > where the code has >=.
RECURSIVE MinLoopStrict(_, _, _, _, _)
MinLoopStrict(sorted_properties, min_price, left, right, result) ==
    IF left > right THEN result
    ELSE LET mid == (left + right) \div 2
         IN IF Gt(At(sorted_properties, mid).price, min_price)
            THEN MinLoopStrict(sorted_properties, min_price, left, mid - 1, mid)
            ELSE MinLoopStrict(sorted_properties, min_price, mid + 1, right, result)

RECURSIVE MinLoop(_, _, _, _, _)
MinLoop(sorted_properties, min_price, left, right, result) ==
    IF left > right THEN result
    ELSE LET mid == (left + right) \div 2
         IN IF Ge(At(sorted_properties, mid).price, min_price)
            THEN MinLoop(sorted_properties, min_price, left, mid - 1, mid)
            ELSE MinLoop(sorted_properties, min_price, mid + 1, right, result)

\* Faulty variant: result starts at 0, not at the length.
_binary_search_min_price_zero(sorted_properties, min_price) ==
    MinLoop(sorted_properties, min_price, 0, Len(sorted_properties) - 1, 0)

_binary_search_min_price(sorted_properties, min_price) ==
    MinLoop(sorted_properties, min_price, 0, Len(sorted_properties) - 1,
            Len(sorted_properties))

\* Faulty variant: after a match the search goes on to the left, as the
\* lower-bound search does.
RECURSIVE MaxLoopLeft(_, _, _, _, _)
MaxLoopLeft(sorted_properties, max_price, left, right, result) ==
    IF left > right THEN result
    ELSE LET mid == (left + right) \div 2
         IN IF Le(At(sorted_properties, mid).price, max_price)
            THEN MaxLoopLeft(sorted_properties, max_price, left, mid - 1, mid)
            ELSE MaxLoopLeft(sorted_properties, max_price, mid + 1, right, result)

RECURSIVE MaxLoop(_, _, _, _, _)
MaxLoop(sorted_properties, max_price, left, right, result) ==
    IF left > right THEN result
    ELSE LET mid == (left + right) \div 2
         IN IF Le(At(sorted_properties, mid).price, max_price)
            THEN MaxLoop(sorted_properties, max_price, mid + 1, right, mid)
            ELSE MaxLoop(sorted_properties, max_price, left, mid - 1, result)

\* Faulty variant: result starts at 0, not at -1.
_binary_search_max_price_zero(sorted_properties, max_price) ==
    MaxLoop(sorted_properties, max_price, 0, Len(sorted_properties) - 1, 0)

_binary_search_max_price(sorted_properties, max_price) ==
    MaxLoop(sorted_properties, max_price, 0, Len(sorted_properties) - 1, -1)

(***************************************************************************)
(* Which list object a returned sequence is.  A call returns either a new  *)
(* list (NoAlias) or one of the engine's own lists: self.properties or a   *)
(* bucket of self.location_map.  `view` follows the engine list most       *)
(* recently handed to the caller and holds what the caller reads in it     *)
(* now: while it still is the engine's list, an in-place append shows in   *)
(* it; once the engine rebinds the attribute to another list (alias        *)
(* "new"), it no longer follows.  A call that returns a new list hands     *)
(* out no engine list, and `view` is then empty.                           *)
(***************************************************************************)
NoKey == <<0, 0>>
NoAlias == [obj |-> "new", key |-> NoKey]
PropertiesAlias == [obj |-> "properties", key |-> NoKey]
BucketAlias(location_key) == [obj |-> "bucket", key |-> location_key]

ListOf(s, alias) ==
    IF alias.obj = "properties" THEN s.properties ELSE s.location_map[alias.key]

(***************************************************************************)
(* One execution of _quick_sort_by_price, of a boundary search or of       *)
(* _hash_location, taken step by step (`run`): the list or text it was     *)
(* given (input, text), the price searched for (key; key and max_price    *)
(* for a range), the list as sorted so far or as returned (items), the     *)
(* calls of _quick_sort_by_price still to be made, as their (low, high),   *)
(* innermost first (stack), and the locals of the search loop.  No         *)
(* execution is followed while the menu loop is modelled (Idle).           *)
(***************************************************************************)
Run(kind, input, key, text) ==
    [kind |-> kind, pc |-> kind, input |-> input, key |-> key, text |-> text,
     max_price |-> 0, items |-> input, stack |-> <<>>, left |-> 0,
     right |-> Len(input) - 1, result |-> 0, hash_value |-> <<0, 0>>]

Idle == Run("idle", <<>>, 0, <<>>)

(***************************************************************************)
(* __init__                                                                *)
(***************************************************************************)
Init ==
    /\ run = Idle
    /\ properties = <<>>
    /\ location_map = <<>>
    /\ id_map = <<>>
    /\ next_id = 1
    /\ issued = <<>>
    /\ last = [op |-> "__init__", arg |-> <<>>, ret |-> <<>>, alias |-> NoAlias]
    /\ view = [alias |-> NoAlias, val |-> <<>>]

(***************************************************************************)
(* The methods, as functions of the engine s and the arguments.  Each      *)
(* yields the engine when the call returns (self), the value returned      *)
(* (ret), which list object that value is (alias), and the engine lists    *)
(* the call replaced by new list objects (rebound); the lists it appends   *)
(* to keep their identity.                                                 *)
(***************************************************************************)
\* Faulty variants of the steps of add_property: an id taken from the
\* length of the list, a bucket that grows at its front.
NewIdReused(s) == Len(s.properties) + 1

NewId(s) == s.next_id

BucketWithFirst(bucket, new_property) == <<new_property>> \o bucket

BucketWith(bucket, new_property) == Append(bucket, new_property)

add_property(s, title, location, price, property_type) ==
    LET property_id == NewId(s)
        new_property == Property(property_id, title, location, price, property_type)
        location_key == _hash_location(location)
    IN [self |->
          [next_id |-> s.next_id + 1,
           properties |-> Append(s.properties, new_property),
           location_map |->
               IF location_key \notin DOMAIN s.location_map
               THEN location_key :> <<new_property>> @@ s.location_map
               ELSE [s.location_map EXCEPT ![location_key] = BucketWith(@, new_property)],
           id_map |-> property_id :> new_property @@ s.id_map],
        ret |-> property_id, alias |-> NoAlias, rebound |-> {}]

\* Faulty variants of the steps of delete_property: True for an unknown
\* id, an id_map entry or a list element that is not removed.
NotFoundTrue(s) == [self |-> s, ret |-> TRUE, alias |-> NoAlias, rebound |-> {}]

NotFound(s) == [self |-> s, ret |-> FALSE, alias |-> NoAlias, rebound |-> {}]

IdMapKept(map, property_id) == map

IdMapWithout(map, property_id) == [i \in DOMAIN map \ {property_id} |-> map[i]]

ListKept(items, property_id) == items

\* Faulty variant: the last element is moved into the place of the removed one.
ListWithoutSwap(items, property_id) ==
    LET at == {i \in 1..Len(items) : items[i].id = property_id}
    IN IF at = {} THEN items
       ELSE LET k == CHOOSE i \in at : TRUE
            IN SubSeq([items EXCEPT ![k] = items[Len(items)]], 1, Len(items) - 1)

ListWithout(items, property_id) ==
    LET Keep(prop) == prop.id # property_id
    IN SelectSeq(items, Keep)

\* Faulty variant: a bucket that becomes empty is removed with its key.
delete_property_prunes(s, property_id) ==
    IF property_id \notin DOMAIN s.id_map
    THEN NotFound(s)
    ELSE LET deleted_property == s.id_map[property_id]
             location_key == _hash_location(deleted_property.location)
             bucket == ListWithout(s.location_map[location_key], property_id)
         IN [self |->
               [next_id |-> s.next_id,
                id_map |-> IdMapWithout(s.id_map, property_id),
                properties |-> ListWithout(s.properties, property_id),
                location_map |->
                    IF bucket = <<>>
                    THEN [k \in DOMAIN s.location_map \ {location_key} |->
                             s.location_map[k]]
                    ELSE [s.location_map EXCEPT ![location_key] = bucket]],
             ret |-> TRUE, alias |-> NoAlias,
             rebound |-> {PropertiesAlias, BucketAlias(location_key)}]

delete_property(s, property_id) ==
    IF property_id \notin DOMAIN s.id_map
    THEN NotFound(s)
    ELSE LET deleted_property == s.id_map[property_id]
             location_key == _hash_location(deleted_property.location)
             inMap == location_key \in DOMAIN s.location_map
         IN [self |->
               [next_id |-> s.next_id,
                id_map |-> IdMapWithout(s.id_map, property_id),
                properties |-> ListWithout(s.properties, property_id),
                location_map |->
                    IF inMap
                    THEN [s.location_map EXCEPT ![location_key] =
                                                ListWithout(@, property_id)]
                    ELSE s.location_map],
             ret |-> TRUE, alias |-> NoAlias,
             rebound |-> {PropertiesAlias} \cup
                         (IF inMap THEN {BucketAlias(location_key)} ELSE {})]

search_by_location(s, location) ==
    LET location_key == _hash_location(location)
    IN IF location_key \in DOMAIN s.location_map
       THEN [self |-> s, ret |-> s.location_map[location_key],
             alias |-> BucketAlias(location_key), rebound |-> {}]
       ELSE [self |-> s, ret |-> <<>>, alias |-> NoAlias, rebound |-> {}]

\* result = self.properties.copy(): a new list object, which the sort then
\* changes in place.  ListSame is the assignment without the copy.
ListSame(alias) == alias

ListCopy(alias) == NoAlias

sort_properties_by_price(s, ascending) ==
    IF s.properties = <<>>
    THEN [self |-> s, ret |-> <<>>, alias |-> NoAlias, rebound |-> {}]
    ELSE LET result_object == ListCopy(PropertiesAlias)
             result == _quick_sort_by_price(s.properties, 0, Len(s.properties) - 1)
             after == IF result_object = PropertiesAlias
                      THEN [s EXCEPT !.properties = result]
                      ELSE s
         IN IF ~ascending
            THEN [self |-> after, ret |-> Reverse(result), alias |-> NoAlias,
                  rebound |-> {}]
            ELSE [self |-> after, ret |-> result, alias |-> result_object,
                  rebound |-> {}]

search_by_price_range(s, min_price, max_price) ==
    LET sorted == sort_properties_by_price(s, TRUE)
        sorted_properties == sorted.ret
        start_idx == _binary_search_min_price(sorted_properties, min_price)
        end_idx == _binary_search_max_price(sorted_properties, max_price)
    IN [self |-> sorted.self,
        ret |-> IF start_idx <= end_idx /\ start_idx < Len(sorted_properties)
                THEN Slice(sorted_properties, start_idx, end_idx + 1)
                ELSE <<>>,
        alias |-> NoAlias, rebound |-> {}]

get_all_properties(s) ==
    [self |-> s, ret |-> s.properties, alias |-> PropertiesAlias, rebound |-> {}]

(***************************************************************************)
(* The calls of the menu loop (main), one action each.                     *)
(***************************************************************************)
Becomes(s) ==
    /\ properties' = s.properties
    /\ location_map' = s.location_map
    /\ id_map' = s.id_map
    /\ next_id' = s.next_id

\* A call that returns no list: the caller's list follows the engine list
\* it is, unless the call rebound that attribute.
Mutates(op, arg, out) ==
    /\ Becomes(out.self)
    /\ last' = [op |-> op, arg |-> arg, ret |-> out.ret, alias |-> out.alias]
    /\ view' = IF view.alias = NoAlias THEN view
               ELSE IF view.alias \in out.rebound THEN [view EXCEPT !.alias = NoAlias]
               ELSE [view EXCEPT !.val = ListOf(out.self, view.alias)]
    /\ UNCHANGED run

\* A call that returns a list.
Returns(op, arg, out) ==
    /\ Becomes(out.self)
    /\ last' = [op |-> op, arg |-> arg, ret |-> out.ret, alias |-> out.alias]
    /\ view' = IF out.alias = NoAlias
               THEN [alias |-> NoAlias, val |-> <<>>]
               ELSE [alias |-> out.alias, val |-> out.ret]
    /\ UNCHANGED <<issued, run>>

CallAddProperty(title, location, price, property_type) ==
    LET out == add_property(self, title, location, price, property_type)
    IN /\ next_id <= MaxAdds
       /\ Mutates("add_property", <<title, location, price, property_type>>, out)
       /\ issued' = Append(issued, out.ret)

CallDeleteProperty(property_id) ==
    /\ Mutates("delete_property", property_id, delete_property(self, property_id))
    /\ UNCHANGED issued

CallSearchByLocation(location) ==
    Returns("search_by_location", location, search_by_location(self, location))

\* main makes the call unless min_price > max_price.
CallSearchByPriceRange(min_price, max_price) ==
    /\ ~Gt(min_price, max_price)
    /\ Returns("search_by_price_range", <<min_price, max_price>>,
               search_by_price_range(self, min_price, max_price))

CallSortPropertiesByPrice(ascending) ==
    Returns("sort_properties_by_price", ascending,
            sort_properties_by_price(self, ascending))

CallGetAllProperties ==
    Returns("get_all_properties", <<>>, get_all_properties(self))

Next ==
    \/ \E title \in Titles, location \in AddLocations, price \in Prices,
          property_type \in PropertyTypes :
          CallAddProperty(title, location, price, property_type)
    \/ \E property_id \in DeleteIds : CallDeleteProperty(property_id)
    \/ \E location \in Locations : CallSearchByLocation(location)
    \/ \E min_price \in PriceBounds, max_price \in PriceBounds :
          CallSearchByPriceRange(min_price, max_price)
    \/ \E ascending \in BOOLEAN : CallSortPropertiesByPrice(ascending)
    \/ CallGetAllProperties

Spec == Init /\ [][Next]_vars

(***************************************************************************)
(* The methods called directly, and their algorithms step by step.  The    *)
(* inputs are every list of up to MaxAdds records priced 0 to MaxPrice + 1 *)
(* or NaN (for the searches, as sort_properties_by_price returns it),      *)
(* every price bound, and every text of up to MaxTextLen characters out of *)
(* " ", "'", "A", "z", U+0130 (capital I with dot) and U+03A3 (capital     *)
(* sigma).                                                                 *)
(***************************************************************************)
Items(n) ==
    {[i \in 1..n |-> Property(i, "A", LocATilde, price[i], "house")] :
        price \in [1..n -> {bound \in PriceBounds : ~Lt(bound, 0)}]}

SortedByPrice(items) ==
    \A i \in 1..Len(items) : \A j \in 1..Len(items) :
        i < j => Le(items[i].price, items[j].price)

\* The engine after add_property of each record of items, in order.
RECURSIVE Catalog(_, _)
Catalog(items, n) ==
    IF n = 0
    THEN [properties |-> <<>>, location_map |-> <<>>, id_map |-> <<>>, next_id |-> 1]
    ELSE add_property(Catalog(items, n - 1), items[n].title, items[n].location,
                      items[n].price, items[n].property_type).self

SortInputs == UNION {Items(n) : n \in 1..MaxAdds}

CatalogInputs == UNION {Items(n) : n \in 0..MaxAdds}

\* The lists search_by_price_range passes to the two searches: the result
\* of sort_properties_by_price(True) on every catalog.  One that holds a
\* NaN price next to another record is not sorted by price.
SearchInputs ==
    {sort_properties_by_price(Catalog(items, Len(items)), TRUE).ret :
        items \in CatalogInputs}

TextChars == {32, 39, 65, 122, 304, 931}

HashInputs == UNION {[1..n -> TextChars] : n \in 0..MaxTextLen}

\* sort_properties_by_price calls _quick_sort_by_price(result, 0, len - 1).
StartSort(items) ==
    [Run("sort", items, 0, <<>>) EXCEPT !.stack = << <<0, Len(items) - 1>> >>]

\* left, right = 0, len - 1 and result = len (min) or -1 (max).
StartMin(sorted_properties, min_price) ==
    [Run("min", sorted_properties, min_price, <<>>) EXCEPT !.result = Len(sorted_properties)]

StartMax(sorted_properties, max_price) ==
    [Run("max", sorted_properties, max_price, <<>>) EXCEPT !.result = -1]

\* search_by_price_range(min_price, max_price) on the catalog of items.
StartRange(items, min_price, max_price) ==
    [Run("range", items, min_price, <<>>) EXCEPT !.max_price = max_price]

\* The engine the menu loop starts with, and one execution to follow.
Starts(runs) ==
    /\ properties = <<>>
    /\ location_map = <<>>
    /\ id_map = <<>>
    /\ next_id = 1
    /\ issued = <<>>
    /\ last = [op |-> "__init__", arg |-> <<>>, ret |-> <<>>, alias |-> NoAlias]
    /\ view = [alias |-> NoAlias, val |-> <<>>]
    /\ run \in runs

InitAlgo ==
    Starts({StartSort(items) : items \in SortInputs}
            \cup {StartMin(items, key) : items \in SearchInputs, key \in PriceBounds}
            \cup {StartMax(items, key) : items \in SearchInputs, key \in PriceBounds})

InitCall ==
    Starts({StartRange(items, min_price, max_price) :
                items \in CatalogInputs, min_price \in PriceBounds,
                max_price \in PriceBounds}
            \cup {Run("hash", <<>>, 0, text) : text \in HashInputs})

\* The body of _quick_sort_by_price between the base case and the two
\* recursive calls: the list after it and the pivot's resting index.
Partition(items, low, high) ==
    LET mid_index == (low + high) \div 2
        atEnd == Swap(items, mid_index, high)
        pivot_price == At(atEnd, high).price
        scan == PartitionScan(atEnd, low, high, low, pivot_price)
    IN [items |-> Swap(scan.items, scan.left_pointer, high),
        left_pointer |-> scan.left_pointer]

\* Faulty variant: the right call keeps the pivot's index.
SubRangesWithPivot(low, high, left_pointer) ==
    << <<low, left_pointer - 1>>, <<left_pointer, high>> >>

\* The (low, high) of the two recursive calls, in call order.
SubRanges(low, high, left_pointer) ==
    << <<low, left_pointer - 1>>, <<left_pointer + 1, high>> >>

Steps(r) == UNCHANGED <<properties, location_map, id_map, next_id, issued, last, view>> /\ run' = r

\* One call of _quick_sort_by_price: it returns at once when low >= high,
\* and otherwise partitions and makes its two calls.
QuickSortCall ==
    /\ run.pc = "sort"
    /\ run.stack # <<>>
    /\ LET low == Head(run.stack)[1]
           high == Head(run.stack)[2]
       IN IF low >= high
          THEN Steps([run EXCEPT !.stack = Tail(@)])
          ELSE LET part == Partition(run.items, low, high)
               IN Steps([run EXCEPT !.items = part.items,
                                    !.stack = SubRanges(low, high, part.left_pointer)
                                                  \o Tail(@)])

\* The outermost call has returned.
QuickSortReturn ==
    /\ run.pc = "sort"
    /\ run.stack = <<>>
    /\ Steps([run EXCEPT !.pc = "done"])

\* One iteration of the while loop of _binary_search_min_price.
MinIteration ==
    /\ run.pc = "min"
    /\ run.left <= run.right
    /\ LET mid == (run.left + run.right) \div 2
       IN IF Ge(At(run.items, mid).price, run.key)
          THEN Steps([run EXCEPT !.result = mid, !.right = mid - 1])
          ELSE Steps([run EXCEPT !.left = mid + 1])

\* One iteration of the while loop of _binary_search_max_price.
MaxIteration ==
    /\ run.pc = "max"
    /\ run.left <= run.right
    /\ LET mid == (run.left + run.right) \div 2
       IN IF Le(At(run.items, mid).price, run.key)
          THEN Steps([run EXCEPT !.result = mid, !.left = mid + 1])
          ELSE Steps([run EXCEPT !.right = mid - 1])

\* The while loop ends: return result.
SearchReturn ==
    /\ run.pc \in {"min", "max"}
    /\ run.left > run.right
    /\ Steps([run EXCEPT !.pc = "done"])

\* search_by_price_range called with any two bounds, min_price >
\* max_price included; items becomes the list returned.
RangeCall ==
    /\ run.pc = "range"
    /\ Steps([run EXCEPT !.pc = "done",
                         !.items = search_by_price_range(
                                       Catalog(run.input, Len(run.input)),
                                       run.key, run.max_price).ret])

HashCall ==
    /\ run.pc = "hash"
    /\ Steps([run EXCEPT !.pc = "done", !.hash_value = _hash_location(run.text)])

NextAlgo ==
    \/ QuickSortCall
    \/ QuickSortReturn
    \/ MinIteration
    \/ MaxIteration
    \/ SearchReturn

\* The code is sequential: a call that can take a step takes it.
AlgoSpec == InitAlgo /\ [][NextAlgo]_vars /\ WF_vars(NextAlgo)

NextCall ==
    \/ RangeCall
    \/ HashCall

\* One direct call of search_by_price_range or of _hash_location.
CallSpec == InitCall /\ [][NextCall]_vars

\* The stepwise executions end with what the operators above compute.
StepsAgree ==
    run.pc = "done" =>
        /\ run.kind = "sort" =>
              run.items = _quick_sort_by_price(run.input, 0, Len(run.input) - 1)
        /\ run.kind = "min" =>
              run.result = _binary_search_min_price(run.input, run.key)
        /\ run.kind = "max" =>
              run.result = _binary_search_max_price(run.input, run.key)

(***************************************************************************)
(* Vocabulary of the properties.                                           *)
(***************************************************************************)
Ids(items) == [i \in 1..Len(items) |-> items[i].id]

Elems(items) == {items[i] : i \in 1..Len(items)}

CountIn(items, r) == Cardinality({i \in 1..Len(items) : items[i] = r})

LiveIds == {properties[i].id : i \in 1..Len(properties)}

Buckets == {location_map[k] : k \in DOMAIN location_map}

KnownRecords ==
    Elems(properties) \cup {id_map[i] : i \in DOMAIN id_map}
        \cup UNION {Elems(bucket) : bucket \in Buckets}

Deleted == Len(issued) - Len(properties)

\* C1: after any sequence of adds and deletes the three views agree: every
\* record held by any view is in the primary list exactly once, is the
\* value of id_map at its own id, and is exactly once in the bucket keyed
\* by the hash of its own location and in no other bucket; no id_map key
\* maps to a record of another id.
C1_ViewsAgree ==
    /\ \A r \in KnownRecords :
          /\ CountIn(properties, r) = 1
          /\ r.id \in DOMAIN id_map
          /\ id_map[r.id] = r
          /\ _hash_location(r.location) \in DOMAIN location_map
          /\ \A k \in DOMAIN location_map :
                CountIn(location_map[k], r) =
                    IF k = _hash_location(r.location) THEN 1 ELSE 0
    /\ \A i \in DOMAIN id_map : id_map[i].id = i
    /\ Cardinality(DOMAIN id_map) = Len(properties)

\* C1 witness: two live records in different buckets after a delete.
C1_Witness ==
    /\ last.op = "delete_property" /\ last.ret = TRUE
    /\ Len(properties) = 2
    /\ \E k1, k2 \in DOMAIN location_map :
          k1 # k2 /\ location_map[k1] # <<>> /\ location_map[k2] # <<>>

\* C2: the ids returned by add_property are strictly increasing in call
\* order starting at 1, so none is returned twice, also after deletes.
C2_IdsIncrease ==
    /\ \A i \in 1..Len(issued) : \A j \in 1..Len(issued) :
          i < j => issued[i] < issued[j]
    /\ issued # <<>> => issued[1] = 1
    /\ last.op = "add_property" => last.ret = issued[Len(issued)]

\* C2 witness: an add made after a delete, with another add before it.
C2_Witness ==
    /\ last.op = "add_property"
    /\ Len(issued) >= 2
    /\ Deleted >= 1

\* C3: delete_property of an id that is not live returns False and leaves
\* the primary list, id_map, the buckets and next_id as they were.
C3_DeleteMissingNoOp ==
    \A property_id \in DeleteIds \ LiveIds :
        LET out == delete_property(self, property_id)
        IN out.ret = FALSE /\ out.self = self

\* C3 witness: a failed delete of an id that was deleted before, with
\* another record still live.
C3_Witness ==
    /\ last.op = "delete_property" /\ last.ret = FALSE
    /\ last.arg \in 1..Len(issued)
    /\ properties # <<>>

\* C4: for a live id, delete_property twice in a row returns True then
\* False, and the engine after the second call equals the engine after the
\* first.
C4_DeleteTwice ==
    \A property_id \in LiveIds :
        LET first == delete_property(self, property_id)
            second == delete_property(first.self, property_id)
        IN /\ first.ret = TRUE
           /\ second.ret = FALSE
           /\ second.self = first.self

\* C4 witness: the second of two deletes of the same id has just returned
\* False.
C4_Witness ==
    /\ last.op = "delete_property" /\ last.ret = FALSE
    /\ last.arg \in 1..Len(issued)
    /\ last.arg \notin LiveIds
    /\ Len(properties) >= 2

NonDecreasing(items) ==
    \A i \in 1..Len(items) : \A j \in 1..Len(items) :
        i < j => Le(items[i].price, items[j].price)

NonIncreasing(items) ==
    \A i \in 1..Len(items) : \A j \in 1..Len(items) :
        i < j => Ge(items[i].price, items[j].price)

\* Two prices are equal (==): neither is NaN and they are the same number.
SamePrice(a, b) == Le(a, b) /\ Ge(a, b)

\* C5: for min_price <= max_price, search_by_price_range returns each
\* record of the primary list whose price is in [min_price, max_price]
\* exactly once, nothing else, in non-decreasing price order.
C5_RangeIsFilter ==
    \A min_price \in PriceBounds : \A max_price \in PriceBounds :
        Le(min_price, max_price) =>
            LET found == search_by_price_range(self, min_price, max_price).ret
            IN /\ \A r \in Elems(properties) :
                     CountIn(found, r) =
                         IF Le(min_price, r.price) /\ Le(r.price, max_price)
                         THEN 1 ELSE 0
               /\ Elems(found) \subseteq Elems(properties)
               /\ NonDecreasing(found)

\* The normalisation the Location Key Function is described with:
\* lower-case, then drop every character of a given set.
WhitespaceChars == {32, 9, 10}
SpaceChar == {32}

LowerCased(text) == Lower(text)

Without(text, chars) ==
    LET Kept(c) == c \notin chars
    IN SelectSeq(text, Kept)

RoutedTogether(chars) ==
    \A r \in Elems(properties) : \A location \in Locations :
        Without(LowerCased(r.location), chars) = Without(LowerCased(location), chars)
            => /\ _hash_location(r.location) = _hash_location(location)
               /\ r \in Elems(search_by_location(self, location).ret)

\* C6 as stated: two location strings equal after lower-casing and
\* removing spaces, tabs and newlines get the same key, and a record added
\* under one is returned by search_by_location of the other.
C6_AllWhitespace == RoutedTogether(WhitespaceChars)

\* C6 as amended: the same for two location strings equal after
\* lower-casing and removing the space character " " only.
C6_SpacesOnly == RoutedTogether(SpaceChar)

\* C6 witness: a record added as "A ~" is returned by a search for "a~".
C6_Witness ==
    /\ last.op = "search_by_location"
    /\ last.arg = LocATilde
    /\ \E i \in 1..Len(last.ret) : last.ret[i].location = LocASpaceTilde

\* C7: sort_properties_by_price(True) returns a permutation of the primary
\* list in non-decreasing price order; the empty list for the empty catalog.
C7_SortAscending ==
    LET sorted == sort_properties_by_price(self, TRUE).ret
    IN /\ Len(sorted) = Len(properties)
       /\ \A r \in Elems(properties) \cup Elems(sorted) :
             CountIn(sorted, r) = CountIn(properties, r)
       /\ NonDecreasing(sorted)

\* C8: sort_properties_by_price (both directions) and search_by_price_range
\* leave the engine as it was, the primary list in insertion order
\* included, and return a new list, not one of the engine's.
C8_QueriesReadOnly ==
    /\ \A ascending \in BOOLEAN :
          LET out == sort_properties_by_price(self, ascending)
          IN out.self = self /\ out.alias = NoAlias
    /\ \A min_price \in PriceBounds : \A max_price \in PriceBounds :
          LET out == search_by_price_range(self, min_price, max_price)
          IN out.self = self /\ out.alias = NoAlias

\* C8 witness: a sort returned an order other than the insertion order.
C8_Witness ==
    /\ last.op = "sort_properties_by_price"
    /\ Len(properties) = 3
    /\ Ids(last.ret) # Ids(properties)
    /\ Ids(properties) = <<1, 2, 3>>

\* C9: the ids of sort_properties_by_price(False) are the ids of
\* sort_properties_by_price(True) read backwards, and its prices are
\* non-increasing.
C9_DescendingIsReversed ==
    LET up == sort_properties_by_price(self, TRUE).ret
        down == sort_properties_by_price(self, FALSE).ret
    IN /\ Len(down) = Len(up)
       /\ \A i \in 1..Len(down) : down[i].id = up[Len(up) + 1 - i].id
       /\ NonIncreasing(down)

\* C10: search_by_location(loc) returns the live records whose location
\* key is the key of loc, collisions included, in insertion order, and
\* the empty sequence when there is none.
SameKey(location) ==
    LET Matches(r) == _hash_location(r.location) = _hash_location(location)
    IN SelectSeq(properties, Matches)

C10_LocationSearch ==
    \A location \in Locations :
        search_by_location(self, location).ret = SameKey(location)

\* C10 witness: after a delete, a search returned two records whose
\* location texts collide without being equal once normalised.
C10_Witness ==
    /\ last.op = "search_by_location"
    /\ Deleted >= 1
    /\ Len(last.ret) = 2
    /\ CleanLocation(last.ret[1].location) # CleanLocation(last.ret[2].location)

\* C10 witness: a search under a key whose records were all deleted.
C10_WitnessEmptied ==
    /\ last.op = "search_by_location"
    /\ last.ret = <<>>
    /\ _hash_location(last.arg) \in DOMAIN location_map
    /\ properties # <<>>

\* C11: get_all_properties returns the live records, each once, in
\* strictly increasing id order, which is the insertion order; a delete
\* leaves the remaining records in their order and an add puts the new
\* record last.
C11_ListAllInsertionOrder ==
    LET all == get_all_properties(self).ret
    IN /\ \A i \in 1..Len(all) : \A j \in 1..Len(all) : i < j => all[i].id < all[j].id
       /\ {all[i].id : i \in 1..Len(all)} = DOMAIN id_map
       /\ \A i \in 1..Len(all) : all[i] = id_map[all[i].id]
       /\ \A i \in 1..Len(all) : all[i].id \in Elems(issued)
       /\ last.op = "add_property" => all[Len(all)].id = last.ret

\* C11 witness: the list after the first of three records was deleted.
C11_Witness ==
    /\ last.op = "get_all_properties"
    /\ Ids(last.ret) = <<2, 3>>

\* C12: search_by_price_range returns the empty sequence when min_price is
\* above every price of the catalog or max_price is below every one, the
\* empty catalog included.
C12_NoOverlapIsEmpty ==
    \A min_price \in PriceBounds : \A max_price \in PriceBounds :
        (\/ \A r \in Elems(properties) : Lt(r.price, min_price)
         \/ \A r \in Elems(properties) : Gt(r.price, max_price))
            => search_by_price_range(self, min_price, max_price).ret = <<>>

\* C12 witness: a search below every price of a catalog of three records
\* returned nothing.
C12_Witness ==
    /\ last.op = "search_by_price_range"
    /\ Len(properties) = 3
    /\ Le(last.arg[1], last.arg[2])
    /\ \A r \in Elems(properties) : Gt(r.price, last.arg[2])
    /\ last.ret = <<>>

\* C13: delete_property of a live id returns True; it removes that record,
\* and no other, from id_map, the primary list and its bucket, keeps the
\* order of the others, leaves every other bucket and every bucket key in
\* place, the key of an emptied bucket included, and leaves next_id.
Apart(items, property_id) ==
    LET Other(r) == r.id # property_id
    IN SelectSeq(items, Other)

C13_DeleteRemovesOne ==
    \A property_id \in LiveIds :
        LET out == delete_property(self, property_id)
            own == _hash_location(id_map[property_id].location)
        IN /\ out.ret = TRUE
           /\ out.self.next_id = next_id
           /\ DOMAIN out.self.id_map = DOMAIN id_map \ {property_id}
           /\ \A i \in DOMAIN out.self.id_map : out.self.id_map[i] = id_map[i]
           /\ out.self.properties = Apart(properties, property_id)
           /\ Len(out.self.properties) = Len(properties) - 1
           /\ DOMAIN out.self.location_map = DOMAIN location_map
           /\ \A k \in DOMAIN location_map :
                 out.self.location_map[k] =
                     IF k = own THEN Apart(location_map[k], property_id)
                     ELSE location_map[k]

\* C13 witness: a delete emptied a bucket whose key is still there, while
\* another record is live.
C13_Witness ==
    /\ last.op = "delete_property" /\ last.ret = TRUE
    /\ properties # <<>>
    /\ \E k \in DOMAIN location_map : location_map[k] = <<>>

\* C17: the ascending sort is not stable: whenever the catalog is two
\* records of one price, the result lists the later-inserted one first.
C17_TwoTiedAreSwapped ==
    (Len(properties) = 2 /\ SamePrice(properties[1].price, properties[2].price))
        => Ids(sort_properties_by_price(self, TRUE).ret)
               = <<properties[2].id, properties[1].id>>

\* C17 witness: an ascending sort returned two tied records against their
\* insertion order.
C17_Witness ==
    /\ last.op = "sort_properties_by_price" /\ last.arg = TRUE
    /\ Len(last.ret) = 2
    /\ SamePrice(last.ret[1].price, last.ret[2].price)
    /\ last.ret[1].id > last.ret[2].id

\* C19: a sequence returned by get_all_properties or search_by_location
\* keeps its contents over the add_property and delete_property calls made
\* after it was returned.
C19_ReturnedSequenceKept ==
    [][last'.op \in {"add_property", "delete_property"} => view'.val = view.val]_vars

\* C20: with min_price > max_price, whatever the catalog, the lower-bound
\* index is above the upper-bound index and search_by_price_range returns
\* the empty sequence.
C20_InvertedRangeIsEmpty ==
    (run.kind = "range" /\ Gt(run.key, run.max_price)) =>
        LET s == Catalog(run.input, Len(run.input))
            sorted_properties == sort_properties_by_price(s, TRUE).ret
        IN /\ _binary_search_min_price(sorted_properties, run.key)
                  > _binary_search_max_price(sorted_properties, run.max_price)
           /\ search_by_price_range(s, run.key, run.max_price).ret = <<>>
           /\ run.pc = "done" => run.items = <<>>

\* C20 witness: an inverted range was searched in a catalog of three
\* records that has one at or under max_price and one at or over min_price.
C20_Witness ==
    /\ run.kind = "range" /\ run.pc = "done"
    /\ Gt(run.key, run.max_price)
    /\ Len(run.input) = 3
    /\ \E r \in Elems(run.input) : Le(r.price, run.max_price)
    /\ \E r \in Elems(run.input) : Ge(r.price, run.key)
    /\ run.items = <<>>

Least(S) == CHOOSE x \in S : \A y \in S : x <= y

Greatest(S) == CHOOSE x \in S : \A y \in S : x >= y

AtLeast(items, price) == {i \in 0..(Len(items) - 1) : Ge(At(items, i).price, price)}

AtMost(items, price) == {i \in 0..(Len(items) - 1) : Le(At(items, i).price, price)}

\* C14: on a list sorted ascending by price, _binary_search_min_price
\* returns the smallest index whose price is >= min_price, and the length
\* of the list when there is none; the loop ends with that value.
C14_LowerBound ==
    (run.kind = "min" /\ SortedByPrice(run.input)) =>
        LET found == _binary_search_min_price(run.input, run.key)
        IN /\ found = IF AtLeast(run.input, run.key) = {} THEN Len(run.input)
                      ELSE Least(AtLeast(run.input, run.key))
           /\ run.pc = "done" => run.result = found

\* C14 witness: the search ended at index 1 of three records, the last
\* two of them priced min_price.
C14_Witness ==
    /\ run.kind = "min" /\ run.pc = "done"
    /\ Len(run.input) = 3
    /\ Lt(run.input[1].price, run.key)
    /\ SamePrice(run.input[2].price, run.key)
    /\ SamePrice(run.input[3].price, run.key)
    /\ run.result = 1

\* C15: on a list sorted ascending by price, _binary_search_max_price
\* returns the largest index whose price is <= max_price, and -1 when
\* there is none; the loop ends with that value.
C15_UpperBound ==
    (run.kind = "max" /\ SortedByPrice(run.input)) =>
        LET found == _binary_search_max_price(run.input, run.key)
        IN /\ found = IF AtMost(run.input, run.key) = {} THEN -1
                      ELSE Greatest(AtMost(run.input, run.key))
           /\ run.pc = "done" => run.result = found

\* C15 witness: the search ended at index 1 of three records, the first
\* two of them priced max_price.
C15_Witness ==
    /\ run.kind = "max" /\ run.pc = "done"
    /\ Len(run.input) = 3
    /\ SamePrice(run.input[1].price, run.key)
    /\ SamePrice(run.input[2].price, run.key)
    /\ Gt(run.input[3].price, run.key)
    /\ run.result = 1

\* The work left: 2 * size + 1 for each call of _quick_sort_by_price still
\* to be made, and the width of the search window.
Size(range) == IF range[2] >= range[1] THEN range[2] - range[1] + 1 ELSE 0

RECURSIVE Work(_)
Work(stack) == IF stack = <<>> THEN 0 ELSE 2 * Size(Head(stack)) + 1 + Work(Tail(stack))

Window(r) == r.right - r.left + 1

SortShrinks ==
    (run.pc = "sort" /\ run'.pc = "sort") =>
        /\ Work(run'.stack) < Work(run.stack)
        /\ LET low == Head(run.stack)[1]
               high == Head(run.stack)[2]
           IN low < high =>
                 \E resting \in low..high :
                    /\ run'.stack[1] = <<low, resting - 1>>
                    /\ run'.stack[2] = <<resting + 1, high>>
                    /\ Size(run'.stack[1]) < Size(Head(run.stack))
                    /\ Size(run'.stack[2]) < Size(Head(run.stack))

SearchShrinks ==
    (run.pc \in {"min", "max"} /\ run'.pc = run.pc) =>
        /\ Window(run') < Window(run)
        /\ run'.left >= run.left
        /\ run'.right <= run.right

\* C16: the sort and both searches end on every input: each recursive
\* call of _quick_sort_by_price is on a range smaller than its parent's,
\* on one side of a pivot index inside [low, high], and each iteration of
\* a search loop narrows [left, right].
C16_Terminates ==
    /\ <>(run.pc = "done")
    /\ [][SortShrinks /\ SearchShrinks]_vars

\* C16 witness: the sort of three records inserted in decreasing price
\* order has returned.
C16_Witness ==
    /\ run.kind = "sort" /\ run.pc = "done"
    /\ Len(run.input) = 3
    /\ Gt(run.input[1].price, run.input[2].price)
    /\ Gt(run.input[2].price, run.input[3].price)
    /\ SortedByPrice(run.items)

\* The fold of C18 in bytes: four base-256 digits, most significant first.
ByteStep(digits, code) ==
    LET d0 == prime * digits[4] + code
        d1 == prime * digits[3] + (d0 \div 256)
        d2 == prime * digits[2] + (d1 \div 256)
        d3 == prime * digits[1] + (d2 \div 256)
    IN <<d3 % 256, d2 % 256, d1 % 256, d0 % 256>>

RECURSIVE ByteFold(_, _)
ByteFold(text, n) ==
    IF n = 0 THEN <<0, 0, 0, 0>> ELSE ByteStep(ByteFold(text, n - 1), text[n])

Normalised(text) == Without(LowerCased(text), SpaceChar)

\* C18: _hash_location returns a value in 0 .. 2^32 - 1 that is the fold
\* hash := (31 * hash + code) mod 2^32 from 0 over the normalised
\* characters, left to right, 0 for an empty normalised text; the call
\* returns that value whatever the engine holds.
C18_HashIsFold ==
    run.kind = "hash" =>
        LET hash_value == _hash_location(run.text)
            digits == ByteFold(Normalised(run.text), Len(Normalised(run.text)))
        IN /\ hash_value[1] \in 0..65535
           /\ hash_value[2] \in 0..65535
           /\ hash_value = <<256 * digits[1] + digits[2], 256 * digits[3] + digits[4]>>
           /\ Normalised(run.text) = <<>> => hash_value = <<0, 0>>
           /\ run.pc = "done" => run.hash_value = hash_value

RECURSIVE Unmasked(_, _)
Unmasked(text, n) ==
    IF n = 0 THEN <<0, 0>> ELSE HashStepNoMask(Unmasked(text, n - 1), text[n])

\* C18 witness: the hash of a text of five characters that starts with a
\* capital sigma and holds a space, a capital I with dot and a sigma at
\* the end of a word, and whose fold passes 2^32.
C18_Witness ==
    /\ run.kind = "hash" /\ run.pc = "done"
    /\ Len(run.text) = 5
    /\ run.text[1] = 931
    /\ 32 \in Elems(run.text) /\ 304 \in Elems(run.text)
    /\ 962 \in Elems(Normalised(run.text))
    /\ Unmasked(Normalised(run.text), Len(Normalised(run.text)))[1] >= Half

====
